---------------------------- MODULE Spec2Model ----------------------------
(***************************************************************************)
(* Model of the subtitle assembly of ASR_API_V2: utils/subtitle_utils.py.  *)
(*                                                                         *)
(*   time_convert   milliseconds -> "HH:MM:SS,mmm"                         *)
(*   Text2SRT       one rendered cue                                       *)
(*   generate_srt   the greedy same-speaker merge over a sentence list     *)
(*                                                                         *)
(* A Python str is a sequence of one-character strings, so that slicing,   *)
(* padding and str.replace are computed and not assumed.  Other Python     *)
(* values are tagged pairs <<type, value>>.                                *)
(***************************************************************************)
EXTENDS Integers, Sequences, FiniteSets, TLC

VARIABLES
    \* one call of time_convert
    ms,              \* the argument
    tc_pc,           \* "idle" | "call" | "returned"
    tc_result,       \* the returned str
    \* one call of generate_srt
    sentence_list,   \* the argument: a sequence of dicts
    merge_threshold, \* the argument
    pc,              \* "idle" | "start" | "loop" | "done" | "raised"
    pos,             \* position in sentence_list of the next `sent` of the for loop
    current_spk, current_start, current_end, current_text,
    index,
    srt_total,
    \* history: the arguments of every Text2SRT(...) built so far, with the index it
    \* was written under, the positions of the sentences it was merged from and the
    \* length of srt_total before it was written
    cues,
    current_first,   \* position of the sentence the open entry was initialised from
    \* one call of the service: POST /transcribe, POST /transcribe_url, or a direct
    \* call of ASRProcessor.process_file or generate_srt
    request,             \* the entry point and the caller's arguments
    environment,         \* what the recognizer returns and which step fails
    svc_pc,              \* position in the handler
    temp_files,          \* the temporary files on disk
    process_file_calls,  \* history: the arguments process_file was called with
    generate_srt_calls,  \* history: the arguments generate_srt was called with
    background_tasks,    \* the tasks added to BackgroundTasks
    response,            \* the HTTP response, or what the direct call returned
    \* history: the temporary files this call created
    created_files

tc_vars == <<ms, tc_pc, tc_result>>
gs_vars == <<sentence_list, merge_threshold, pc, pos, current_spk, current_start,
             current_end, current_text, index, srt_total, cues, current_first>>
svc_vars == <<request, environment, svc_pc, temp_files, process_file_calls,
              generate_srt_calls, background_tasks, response, created_files>>
vars == <<ms, tc_pc, tc_result, sentence_list, merge_threshold, pc, pos, current_spk,
          current_start, current_end, current_text, index, srt_total, cues,
          current_first, request, environment, svc_pc, temp_files, process_file_calls,
          generate_srt_calls, background_tasks, response, created_files>>

---------------------------------------------------------------------------
(* Python values *)

PyNone == <<"None", 0>>
PyInt(n) == <<"int", n>>
PyStr(s) == <<"str", s>>
PyList(xs) == <<"list", xs>>
PyTuple(xs) == <<"tuple", xs>>
\* a key that is not in the dict
Absent == <<"absent", 0>>

TypeOf(v) == v[1]
ValOf(v) == v[2]

\* dict.get(key, default)
Get(d, key, default) == IF d[key] = Absent THEN default ELSE d[key]

---------------------------------------------------------------------------
(* str helpers *)

Digits == <<"0", "1", "2", "3", "4", "5", "6", "7", "8", "9">>

RECURSIVE StrNat(_)
StrNat(n) ==
    IF n < 10 THEN <<Digits[n + 1]>>
    ELSE StrNat(n \div 10) \o <<Digits[(n % 10) + 1]>>

\* str(n) of an int
str(n) == IF n < 0 THEN <<"-">> \o StrNat(-n) ELSE StrNat(n)

\* s.zfill(width): zeros after a leading sign, up to the width
zfill(s, width) ==
    LET pad == [k \in 1..(width - Len(s)) |-> "0"]
    IN  IF Len(s) >= width THEN s
        ELSE IF s # <<>> /\ s[1] \in {"+", "-"} THEN <<s[1]>> \o pad \o Tail(s)
        ELSE pad \o s

\* int(ms) of an int
int(x) == x

\* a float, as the fraction num/den with den > 0
PyFloat(num, den) == <<"float", num, den>>

\* int(ms) rounding to the nearest integer
int_float_rounded(f) == (2 * f[2] + f[3]) \div (2 * f[3])

\* int(ms) of a float: the fraction is dropped, towards zero
int_float(f) == IF f[2] >= 0 THEN f[2] \div f[3] ELSE -((-f[2]) \div f[3])

---------------------------------------------------------------------------
(* time_convert *)

\* lines 21-23: if len(x) == 1: x = '0' + x
PadOne(x) == IF Len(x) = 1 THEN <<"0">> \o x ELSE x

\* lines 17-19: "00" if x == 0 else str(x)
ZeroOrStr(x) == IF x = 0 THEN <<"0", "0">> ELSE str(x)

\* time_convert with the hours kept to two digits
time_convert_two_digit_hours(m) ==
    LET ms0  == int(m)
        tail == ms0 % 1000
        s0   == ms0 \div 1000
        mi0  == s0 \div 60
        s1   == s0 % 60
        h0   == (mi0 \div 60) % 100
        mi1  == mi0 % 60
        h    == PadOne(ZeroOrStr(h0))
        mi   == PadOne(ZeroOrStr(mi1))
        s    == PadOne(ZeroOrStr(s1))
        t    == zfill(str(tail), 3)
    IN  h \o <<":">> \o mi \o <<":">> \o s \o <<",">> \o t

time_convert(m) ==
    LET ms0  == int(m)
        tail == ms0 % 1000
        s0   == ms0 \div 1000
        mi0  == s0 \div 60
        s1   == s0 % 60
        h0   == mi0 \div 60
        mi1  == mi0 % 60
        h    == PadOne(ZeroOrStr(h0))
        mi   == PadOne(ZeroOrStr(mi1))
        s    == PadOne(ZeroOrStr(s1))
        t    == zfill(str(tail), 3)
    IN  h \o <<":">> \o mi \o <<":">> \o s \o <<",">> \o t

---------------------------------------------------------------------------
(* Text2SRT *)

\* the characters the model takes as lying in '\u4e00'..'\u9fff'
CJKChars == {"U+4E2D", "U+6587"}

\* line 50: '\u4e00' <= word <= '\u9fff', the lexicographic order of str
IsCJKWord(word) == word # <<>> /\ word[1] \in CJKChars

RECURSIVE JoinTokens(_)
\* lines 48-53: res += word for a CJK word, res += " " + word for another
JoinTokens(tokens) ==
    IF tokens = <<>> THEN <<>>
    ELSE LET n    == Len(tokens)
             word == tokens[n]
         IN  JoinTokens(SubSeq(tokens, 1, n - 1))
                 \o (IF IsCJKWord(word) THEN word ELSE <<" ">> \o word)

RECURSIVE lstrip(_)
lstrip(s) == IF s # <<>> /\ s[1] \in {" ", "\n", "\t"} THEN lstrip(Tail(s)) ELSE s

\* Text2SRT.text(), lines 43-54
text(token_list) ==
    IF TypeOf(token_list) = "str" THEN ValOf(token_list)
    ELSE lstrip(JoinTokens(ValOf(token_list)))

\* Text2SRT.__init__, line 38, for timestamp = [(start, end)]: the cue's start_sec
\* and end_sec with offset = 0
StartSec(start, end, offset) == start - offset
EndSec(start, end, offset) == end - offset

\* x + acc_ost*1000 with acc_ost = 0.0 is float(x); int() of it in time_convert gives
\* x back for |x| < 2^53
PlusOffset(x, acc_ost) == x + acc_ost * 1000

\* Text2SRT(token_list, [(start, end)]).srt(), lines 56-61
srt(token_list, start, end) ==
    time_convert(PlusOffset(StartSec(start, end, 0), 0))
        \o <<" ", "-", "-", ">", " ">>
        \o time_convert(PlusOffset(EndSec(start, end, 0), 0))
        \o <<"\n">> \o text(token_list) \o <<"\n">>

---------------------------------------------------------------------------
(* str.replace *)

\* old = '': new goes before every character and after the last
RECURSIVE Interleave(_, _)
Interleave(s, new) ==
    IF s = <<>> THEN new ELSE new \o <<Head(s)>> \o Interleave(Tail(s), new)

RECURSIVE ReplaceFrom(_, _, _)
\* the occurrences of old in s are replaced from the left, without overlap
ReplaceFrom(s, old, new) ==
    IF Len(s) < Len(old) THEN s
    ELSE IF SubSeq(s, 1, Len(old)) = old
         THEN new \o ReplaceFrom(SubSeq(s, Len(old) + 1, Len(s)), old, new)
         ELSE <<Head(s)>> \o ReplaceFrom(Tail(s), old, new)

\* s.replace(old, new)
replace(s, old, new) ==
    IF old = <<>> THEN Interleave(s, new) ELSE ReplaceFrom(s, old, new)

---------------------------------------------------------------------------
(* generate_srt: the timestamp of a sentence *)

Subscriptable(v) == TypeOf(v) \in {"list", "tuple", "str"}

\* what the timestamp handling gives: the exception it raises ("" for none), or the
\* start and the end as Python values
Raises(exc) == [raised |-> exc, start |-> PyNone, end |-> PyNone]
Gives(start, end) == [raised |-> "", start |-> start, end |-> end]

\* ReadTimestamp taking the end of the first pair, timestamp[0][1]
ReadTimestamp_first_pair_end(sent) ==
    LET ts    == sent.timestamp
        items == ValOf(ts)
        first == items[1]
    IN  IF ts = Absent THEN Raises("KeyError")
        ELSE IF TypeOf(ts) = "list" /\ Len(items) > 0
        THEN IF TypeOf(first) \in {"list", "tuple"} /\ Len(ValOf(first)) >= 2
             THEN Gives(ValOf(first)[1], ValOf(first)[2])
             ELSE Gives(items[1], IF Len(items) > 1 THEN items[2] ELSE PyInt(0))
        ELSE Gives(PyInt(0), PyInt(0))

\* ReadTimestamp with start and end the wrong way round
ReadTimestamp_swapped(sent) ==
    LET ts    == sent.timestamp
        items == ValOf(ts)
        first == items[1]
        last  == items[Len(items)]
    IN  IF ts = Absent THEN Raises("KeyError")
        ELSE IF TypeOf(ts) = "list" /\ Len(items) > 0
        THEN IF TypeOf(first) \in {"list", "tuple"} /\ Len(ValOf(first)) >= 2
             THEN Gives(ValOf(last)[2], ValOf(first)[1])
             ELSE Gives(IF Len(items) > 1 THEN items[2] ELSE PyInt(0), items[1])
        ELSE Gives(PyInt(0), PyInt(0))

\* lines 85-97 and 106-118
ReadTimestamp(sent) ==
    LET ts    == sent.timestamp
        items == ValOf(ts)
        first == items[1]
        last  == items[Len(items)]
    IN  IF ts = Absent THEN Raises("KeyError")
        ELSE IF TypeOf(ts) = "list" /\ Len(items) > 0
        THEN IF TypeOf(first) \in {"list", "tuple"} /\ Len(ValOf(first)) >= 2
             THEN \* timestamp[0][0], timestamp[-1][1]
                  IF ~Subscriptable(last) THEN Raises("TypeError")
                  ELSE IF Len(ValOf(last)) < 2 THEN Raises("IndexError")
                  ELSE Gives(ValOf(first)[1],
                             IF TypeOf(last) = "str" THEN PyStr(<<ValOf(last)[2]>>)
                             ELSE ValOf(last)[2])
             ELSE \* a flat list [start, end]
                  Gives(items[1], IF Len(items) > 1 THEN items[2] ELSE PyInt(0))
        ELSE Gives(PyInt(0), PyInt(0))

\* The start and the end are used as numbers at line 124 (sent_start - current_end)
\* and at line 38 (timestamp[0][0] - offset) before generate_srt returns anything:
\* a start or an end that is no number raises TypeError there.
Normalise(sent) ==
    LET r == ReadTimestamp(sent)
    IN  IF r.raised # "" THEN [raised |-> r.raised, start |-> 0, end |-> 0]
        ELSE IF TypeOf(r.start) # "int" \/ TypeOf(r.end) # "int"
        THEN [raised |-> "TypeError", start |-> 0, end |-> 0]
        ELSE [raised |-> "", start |-> ValOf(r.start), end |-> ValOf(r.end)]

sent_start(sent) == Normalise(sent).start
sent_end(sent) == Normalise(sent).end
\* lines 82 and 103: sent.get('spk', None)
sent_spk(sent) == Get(sent, "spk", PyNone)
\* lines 100 and 120
sent_text(sent) == sent.text

---------------------------------------------------------------------------
(* generate_srt: the merge *)

\* same_speaker comparing (spk or None): speaker 0 taken for no speaker
same_speaker_falsy_zero(spk, cur_spk) ==
    (IF spk = PyInt(0) THEN PyNone ELSE spk) = (IF cur_spk = PyInt(0) THEN PyNone ELSE cur_spk)

\* line 123
same_speaker(spk, cur_spk) == spk = cur_spk

\* line 124
time_gap(start, cur_end) == start - cur_end

\* ShouldMerge with a strict comparison
ShouldMerge_strict(spk, start, cur_spk, cur_end, threshold) ==
    same_speaker(spk, cur_spk) /\ time_gap(start, cur_end) < threshold

\* ShouldMerge with the comparison turned round
ShouldMerge_inverted(spk, start, cur_spk, cur_end, threshold) ==
    same_speaker(spk, cur_spk) /\ time_gap(start, cur_end) >= threshold

\* ShouldMerge on the gap alone
ShouldMerge_any_speaker(spk, start, cur_spk, cur_end, threshold) ==
    time_gap(start, cur_end) <= threshold

\* line 126
ShouldMerge(spk, start, cur_spk, cur_end, threshold) ==
    same_speaker(spk, cur_spk) /\ time_gap(start, cur_end) <= threshold

\* MergedEnd as a running maximum
MergedEnd_max(cur_end, end) == IF end > cur_end THEN end ELSE cur_end

\* line 128: the open entry's end after a merge
MergedEnd(cur_end, end) == end

\* MergedStart taking the merged sentence's start
MergedStart_latest(cur_start, start) == start

\* lines 127-129 leave current_start alone
MergedStart(cur_start, start) == cur_start

\* MergedText that skips an empty sent_text
MergedText_skip_empty(cur_text, txt) ==
    IF ValOf(txt) = <<>> THEN cur_text
    ELSE PyStr(ValOf(cur_text) \o <<" ">> \o ValOf(txt))

\* line 129: current_text += ' ' + sent_text. ' ' + sent_text is a str (sent_text is
\* one, or TypeError); added to a str it is appended, added to a list its characters
\* are appended one by one
MergedText(cur_text, txt) ==
    LET added == <<" ">> \o ValOf(txt)
    IN  IF TypeOf(cur_text) = "str" THEN PyStr(ValOf(cur_text) \o added)
        ELSE PyList(ValOf(cur_text) \o [k \in 1..Len(added) |-> <<added[k]>>])

\* NextIndex counting sentences instead of entries written
NextIndex_stuck(idx) == idx

\* line 139
NextIndex(idx) == idx + 1

\* f"[spk{current_spk}] {current_text}"
SpkPrefixed(spk, txt) ==
    <<"[", "s", "p", "k">> \o (IF TypeOf(spk) = "int" THEN str(ValOf(spk)) ELSE ValOf(spk))
        \o <<"]", " ">> \o txt

\* lines 132-138 and 148-154: what writing the open entry appends to srt_total
WriteEntry(idx, spk, start, end, txt) ==
    LET t2s_srt == srt(txt, start, end)
    IN  IF spk # PyNone
        THEN str(idx) \o <<"\n">>
                 \o replace(t2s_srt, ValOf(txt), SpkPrefixed(spk, ValOf(txt)))
                 \o <<"\n">>
        ELSE str(idx) \o <<"\n">> \o t2s_srt \o <<"\n">>

\* the history record of an entry written
Cue(idx, spk, start, end, txt, first, last, offset) ==
    [index |-> idx, speaker |-> spk, start_ms |-> start, end_ms |-> end,
     text |-> txt, first |-> first, last |-> last, offset |-> offset]

---------------------------------------------------------------------------
(* generate_srt: the steps *)

\* the sentence read, its timestamp used and its text merged without an exception
ReadsCleanly(sent) == Normalise(sent).raised = ""
MergesCleanly(sent) == TypeOf(sent_text(sent)) = "str"
\* str.replace at lines 135 and 151 takes a str
WritesCleanly(spk, txt) == spk = PyNone \/ TypeOf(txt) = "str"

\* lines 78-79
ReturnEmpty ==
    /\ pc = "start"
    /\ sentence_list = <<>>
    /\ pc' = "done"
    /\ UNCHANGED <<sentence_list, merge_threshold, pos, current_spk, current_start,
                   current_end, current_text, index, srt_total, cues, current_first>>
    /\ UNCHANGED tc_vars
    /\ UNCHANGED svc_vars

\* lines 81-100
FirstEntry ==
    /\ pc = "start"
    /\ sentence_list # <<>>
    /\ LET sent == sentence_list[1]
       IN  /\ ReadsCleanly(sent)
           /\ current_spk' = sent_spk(sent)
           /\ current_start' = sent_start(sent)
           /\ current_end' = sent_end(sent)
           /\ current_text' = sent_text(sent)
    /\ current_first' = 1
    /\ pos' = 2
    /\ pc' = "loop"
    /\ UNCHANGED <<sentence_list, merge_threshold, index, srt_total, cues>>
    /\ UNCHANGED tc_vars
    /\ UNCHANGED svc_vars

\* lines 102-129: the next sentence is merged into the open entry
MergeSentence ==
    /\ pc = "loop"
    /\ pos <= Len(sentence_list)
    /\ LET sent == sentence_list[pos]
       IN  /\ ReadsCleanly(sent)
           /\ ShouldMerge(sent_spk(sent), sent_start(sent), current_spk, current_end,
                          merge_threshold)
           /\ MergesCleanly(sent)
           /\ current_start' = MergedStart(current_start, sent_start(sent))
           /\ current_end' = MergedEnd(current_end, sent_end(sent))
           /\ current_text' = MergedText(current_text, sent_text(sent))
           \* a list current_text is the object sentence_list[current_first]['text']
           \* (bound at lines 100 and 145 without a copy): += extends it in place
           /\ sentence_list' =
                 IF TypeOf(current_text) = "list"
                 THEN [sentence_list EXCEPT ![current_first].text =
                                                MergedText(current_text, sent_text(sent))]
                 ELSE sentence_list
    /\ pos' = pos + 1
    /\ UNCHANGED <<merge_threshold, pc, current_spk, index, srt_total, cues,
                   current_first>>
    /\ UNCHANGED tc_vars
    /\ UNCHANGED svc_vars

\* lines 102-126 and 130-145: the open entry is written and the next sentence opens
\* a new one
WriteAndReinit ==
    /\ pc = "loop"
    /\ pos <= Len(sentence_list)
    /\ LET sent == sentence_list[pos]
       IN  /\ ReadsCleanly(sent)
           /\ ~ShouldMerge(sent_spk(sent), sent_start(sent), current_spk, current_end,
                           merge_threshold)
           /\ WritesCleanly(current_spk, current_text)
           /\ srt_total' = srt_total \o WriteEntry(index, current_spk, current_start,
                                                   current_end, current_text)
           /\ cues' = Append(cues, Cue(index, current_spk, current_start, current_end,
                                       current_text, current_first, pos - 1, Len(srt_total)))
           /\ index' = NextIndex(index)
           /\ current_spk' = sent_spk(sent)
           /\ current_start' = sent_start(sent)
           /\ current_end' = sent_end(sent)
           /\ current_text' = sent_text(sent)
    /\ current_first' = pos
    /\ pos' = pos + 1
    /\ UNCHANGED <<sentence_list, merge_threshold, pc>>
    /\ UNCHANGED tc_vars
    /\ UNCHANGED svc_vars

\* WriteLast that returns srt_total without writing the open entry
WriteLast_dropped ==
    /\ pc = "loop"
    /\ pos > Len(sentence_list)
    /\ pc' = "done"
    /\ UNCHANGED <<sentence_list, merge_threshold, pos, current_spk, current_start,
                   current_end, current_text, index, srt_total, cues, current_first>>
    /\ UNCHANGED tc_vars
    /\ UNCHANGED svc_vars

\* lines 147-156: the last entry is written and srt_total returned
WriteLast ==
    /\ pc = "loop"
    /\ pos > Len(sentence_list)
    /\ WritesCleanly(current_spk, current_text)
    /\ srt_total' = srt_total \o WriteEntry(index, current_spk, current_start,
                                            current_end, current_text)
    /\ cues' = Append(cues, Cue(index, current_spk, current_start, current_end,
                                current_text, current_first, pos - 1, Len(srt_total)))
    /\ pc' = "done"
    /\ UNCHANGED <<sentence_list, merge_threshold, pos, current_spk, current_start,
                   current_end, current_text, index, current_first>>
    /\ UNCHANGED tc_vars
    /\ UNCHANGED svc_vars

\* the sentence whose fields the code reads next: sentence_list[0] at line 82, sent
\* at line 102
ReadsNext ==
    \/ pc = "start" /\ sentence_list # <<>>
    \/ pc = "loop" /\ pos <= Len(sentence_list)

\* the open entry is written next: at line 130 because the sentence does not merge,
\* or at line 147 after the loop
WritesNext ==
    /\ pc = "loop"
    /\ \/ pos > Len(sentence_list)
       \/ /\ pos <= Len(sentence_list)
          /\ ReadsCleanly(sentence_list[pos])
          /\ ~ShouldMerge(sent_spk(sentence_list[pos]), sent_start(sentence_list[pos]),
                          current_spk, current_end, merge_threshold)

\* lines 85-97 and 106-124: the timestamp of the sentence raises (KeyError for no
\* 'timestamp', IndexError or TypeError for timestamp[-1][1], TypeError for a start
\* that is no number); the exception leaves generate_srt
RaiseOnTimestamp ==
    /\ ReadsNext
    /\ ~ReadsCleanly(sentence_list[pos])
    /\ pc' = "raised"
    /\ UNCHANGED <<sentence_list, merge_threshold, pos, current_spk, current_start,
                   current_end, current_text, index, srt_total, cues, current_first>>
    /\ UNCHANGED tc_vars
    /\ UNCHANGED svc_vars

\* line 129: ' ' + sent_text raises TypeError for a sent_text that is no str
RaiseOnMerge ==
    /\ pc = "loop"
    /\ pos <= Len(sentence_list)
    /\ LET sent == sentence_list[pos]
       IN  /\ ReadsCleanly(sent)
           /\ ShouldMerge(sent_spk(sent), sent_start(sent), current_spk, current_end,
                          merge_threshold)
           /\ ~MergesCleanly(sent)
    /\ pc' = "raised"
    /\ UNCHANGED <<sentence_list, merge_threshold, pos, current_spk, current_start,
                   current_end, current_text, index, srt_total, cues, current_first>>
    /\ UNCHANGED tc_vars
    /\ UNCHANGED svc_vars

\* lines 135 and 151: str.replace raises TypeError for a current_text that is no str
RaiseOnWrite ==
    /\ WritesNext
    /\ ~WritesCleanly(current_spk, current_text)
    /\ pc' = "raised"
    /\ UNCHANGED <<sentence_list, merge_threshold, pos, current_spk, current_start,
                   current_end, current_text, index, srt_total, cues, current_first>>
    /\ UNCHANGED tc_vars
    /\ UNCHANGED svc_vars

\* one call of time_convert, lines 8-24
TimeConvert ==
    /\ tc_pc = "call"
    /\ tc_result' = time_convert(ms)
    /\ tc_pc' = "returned"
    /\ UNCHANGED ms
    /\ UNCHANGED gs_vars
    /\ UNCHANGED svc_vars

\* one call of time_convert on a float, lines 8-24: line 12 makes an int of it, which
\* the rest of the function formats
TimeConvertFloat ==
    /\ tc_pc = "call"
    /\ tc_result' = time_convert(int_float(ms))
    /\ tc_pc' = "returned"
    /\ UNCHANGED ms
    /\ UNCHANGED gs_vars
    /\ UNCHANGED svc_vars

---------------------------------------------------------------------------
(* The calls the model makes *)

\* the longest generated sentence list
MaxSentences == 3
\* time_convert is called on every ms within MaxDelta of a field boundary
MaxDelta == 12

Pair(s, e) == PyList(<<PyInt(s), PyInt(e)>>)
TuplePair(s, e) == PyTuple(<<PyInt(s), PyInt(e)>>)

Sentence(txt, ts, spk) == [text |-> PyStr(txt), timestamp |-> ts, spk |-> spk]

\* a list of word intervals (0, 2); a flat list (3, 1) that ends before it starts;
\* a list of one tuple (4, 5), as in test_time_convert.py; a flat list (2, 2)
Timestamps ==
    { PyList(<<Pair(0, 1), Pair(1, 2)>>),
      PyList(<<PyInt(3), PyInt(1)>>),
      PyList(<<TuplePair(4, 5)>>),
      PyList(<<PyInt(2), PyInt(2)>>) }

\* no 'spk' key (diarization disabled), speaker 0, speaker 1
Speakers == {Absent, PyInt(0), PyInt(1)}

Thresholds == {0, 1}

TimingSentences == {Sentence(<<"a">>, ts, spk) : ts \in Timestamps, spk \in Speakers}

TextSentences ==
    {Sentence(txt, PyList(<<PyInt(2), PyInt(2)>>), spk) :
        txt \in {<<>>, <<"b">>, <<"0">>}, spk \in {Absent, PyInt(0)}}

Sentences == TimingSentences \cup TextSentences

SentenceLists == UNION {[1..n -> Sentences] : n \in 0..MaxSentences}

\* the five sentences of test_merge_logic.py, with the texts of the spec's scenario
Fixture ==
    << Sentence(<<"A">>, PyList(<<Pair(0, 2000)>>), PyInt(0)),
       Sentence(<<"B">>, PyList(<<Pair(2100, 4000)>>), PyInt(0)),
       Sentence(<<"C">>, PyList(<<Pair(4050, 6000)>>), PyInt(0)),
       Sentence(<<"D">>, PyList(<<Pair(6500, 8000)>>), PyInt(1)),
       Sentence(<<"E">>, PyList(<<Pair(8200, 10000)>>), PyInt(0)) >>

FixtureThresholds == {50, 100, 1000, 8000}

\* two same-speaker sentences, the second ending before the first does
EndOverwriteFixture ==
    << Sentence(<<"A">>, PyList(<<Pair(0, 2000)>>), PyInt(0)),
       Sentence(<<"B">>, PyList(<<Pair(2100, 1900)>>), PyInt(0)) >>

\* the field boundaries of HH:MM:SS,mmm, on both sides of zero
Boundaries ==
    {0, 1000, 10000, 60000, 600000, 3600000, 36000000, 86400000, 360000000,
     -1000, -60000, -3600000}

MsInputs == {b + d : b \in Boundaries, d \in (-MaxDelta)..MaxDelta}

TimeConvertIdle == ms = 0 /\ tc_pc = "idle" /\ tc_result = <<>>

\* no call of the service
NoRequest == [entry |-> "none"]
NoResponse == [status_code |-> 0]
ServiceIdle ==
    /\ request = NoRequest
    /\ environment = [fails |-> "nothing"]
    /\ svc_pc = "idle"
    /\ temp_files = {}
    /\ process_file_calls = <<>>
    /\ generate_srt_calls = <<>>
    /\ background_tasks = <<>>
    /\ response = NoResponse
    /\ created_files = {}

GenerateSrtLocals ==
    /\ pos = 1
    /\ current_spk = PyNone
    /\ current_start = 0
    /\ current_end = 0
    /\ current_text = PyStr(<<>>)
    /\ index = 1
    /\ srt_total = <<>>
    /\ cues = <<>>
    /\ current_first = 1

\* a call of generate_srt, after lines 75-76
Init ==
    /\ TimeConvertIdle
    /\ \/ sentence_list \in SentenceLists /\ merge_threshold \in Thresholds
       \/ sentence_list = Fixture /\ merge_threshold \in FixtureThresholds
       \/ sentence_list = EndOverwriteFixture /\ merge_threshold \in FixtureThresholds
    /\ pc = "start"
    /\ GenerateSrtLocals
    /\ ServiceIdle

Next == ReturnEmpty \/ FirstEntry \/ MergeSentence \/ WriteAndReinit \/ WriteLast

Spec == Init /\ [][Next]_vars

\* a call of time_convert
InitTimeConvert ==
    /\ ms \in MsInputs
    /\ tc_pc = "call"
    /\ tc_result = <<>>
    /\ sentence_list = <<>>
    /\ merge_threshold = 0
    /\ pc = "idle"
    /\ GenerateSrtLocals
    /\ ServiceIdle

NextTimeConvert == TimeConvert

SpecTimeConvert == InitTimeConvert /\ [][NextTimeConvert]_vars

\* the float values of the edge-case test, without their fraction
TestedFloats == {2180, 2379}

\* the first decimal of a float that is no integer
Tenths == 1..9

\* time_convert is called on floats from a field boundary or a tested value up to
\* MaxDelta above it, with every first decimal (up to a day: the tenths stay below
\* 2^31)
FloatInputs ==
    {PyFloat(10 * (b + d) + t, 10) :
        b \in {c \in Boundaries : 0 <= c /\ c <= 86400000} \cup TestedFloats,
        d \in 0..MaxDelta, t \in Tenths}

\* a call of time_convert on a float
InitTimeConvertFloat ==
    /\ ms \in FloatInputs
    /\ tc_pc = "call"
    /\ tc_result = <<>>
    /\ sentence_list = <<>>
    /\ merge_threshold = 0
    /\ pc = "idle"
    /\ GenerateSrtLocals
    /\ ServiceIdle

NextTimeConvertFloat == TimeConvertFloat

SpecTimeConvertFloat == InitTimeConvertFloat /\ [][NextTimeConvertFloat]_vars

\* the most sentences in a call with timestamps and texts of any shape
MaxRawSentences == 2

\* sentence['timestamp'] in the shapes lines 85-97 tell apart, and beyond them
RawTimestamps ==
    { Absent,                                             \* no 'timestamp' key
      PyNone,                                             \* None
      PyInt(7),                                           \* 7
      PyList(<<>>),                                       \* []
      PyList(<<PyInt(5)>>),                               \* [5]
      PyTuple(<<PyInt(1), PyInt(2)>>),                    \* (1, 2)
      PyList(<<PyList(<<PyInt(1)>>)>>),                   \* [[1]]
      PyList(<<Pair(1, 2), PyList(<<PyInt(3)>>)>>),       \* [[1, 2], [3]]
      PyList(<<Pair(1, 2), PyInt(5)>>),                   \* [[1, 2], 5]
      Pair(0, 2),                                         \* [0, 2]
      PyList(<<Pair(0, 2)>>) }                            \* [[0, 2]]

\* sentences with a str text and any timestamp
RawTimingSentences ==
    {Sentence(<<"a">>, ts, spk) : ts \in RawTimestamps, spk \in {Absent, PyInt(0)}}

\* sentences whose text is a list of tokens
TokenSentences ==
    {[text |-> PyList(<< <<"a">>, <<"b">> >>), timestamp |-> PyList(<<Pair(0, 2)>>),
      spk |-> spk] : spk \in {Absent, PyInt(0)}}

RawSentenceLists ==
    UNION {[1..n -> RawTimingSentences \cup TokenSentences] : n \in 0..MaxRawSentences}

\* a call of generate_srt on sentences of any shape
InitRaw ==
    /\ TimeConvertIdle
    /\ sentence_list \in RawSentenceLists
    /\ merge_threshold \in Thresholds
    /\ pc = "start"
    /\ GenerateSrtLocals
    /\ ServiceIdle

NextRaw ==
    \/ ReturnEmpty
    \/ FirstEntry
    \/ MergeSentence
    \/ WriteAndReinit
    \/ WriteLast
    \/ RaiseOnTimestamp
    \/ RaiseOnMerge
    \/ RaiseOnWrite

SpecRaw == InitRaw /\ [][NextRaw]_vars

\* the ms of the time_convert call that runs beside a generate_srt call
ConcurrentMs == {0, 3599999}

\* a call of generate_srt and a call of time_convert, on inputs of their own, whose
\* steps interleave
InitConcurrent ==
    /\ ms \in ConcurrentMs
    /\ tc_pc = "call"
    /\ tc_result = <<>>
    /\ sentence_list \in RawSentenceLists
    /\ merge_threshold \in Thresholds
    /\ pc = "start"
    /\ GenerateSrtLocals
    /\ ServiceIdle

NextConcurrent == NextRaw \/ TimeConvert

SpecConcurrent == InitConcurrent /\ [][NextConcurrent]_vars

---------------------------------------------------------------------------
(* What the claims are stated with *)

IsDigit(c) == \E k \in 1..10 : Digits[k] = c

\* x in 0..99 in two digits, x in 0..999 in three
TwoDigits(x) == <<Digits[(x \div 10) + 1], Digits[(x % 10) + 1]>>
ThreeDigits(x) ==
    <<Digits[(x \div 100) + 1], Digits[((x \div 10) % 10) + 1], Digits[(x % 10) + 1]>>

\* the decimal numeral of n >= 0, digit by digit from its length
NumDigits(n) == IF n = 0 THEN 1 ELSE CHOOSE k \in 1..9 : 10^(k - 1) <= n /\ n < 10^k
Decimal(n) ==
    [k \in 1..NumDigits(n) |-> Digits[((n \div 10^(NumDigits(n) - k)) % 10) + 1]]

\* H:MM:SS,mmm of a non-negative ms, the hours in full and in at least two digits
ExpectedTime(m) ==
    LET H == m \div 3600000
    IN  (IF H < 100 THEN TwoDigits(H) ELSE Decimal(H))
            \o <<":">> \o TwoDigits((m \div 60000) % 60)
            \o <<":">> \o TwoDigits((m \div 1000) % 60)
            \o <<",">> \o ThreeDigits(m % 1000)

\* \d{2,}:\d{2}:\d{2},\d{3}
MatchesTimePattern(s) ==
    LET n == Len(s)
    IN  /\ n >= 12
        /\ \A k \in 1..(n - 10) : IsDigit(s[k])
        /\ s[n - 9] = ":" /\ IsDigit(s[n - 8]) /\ IsDigit(s[n - 7])
        /\ s[n - 6] = ":" /\ IsDigit(s[n - 5]) /\ IsDigit(s[n - 4])
        /\ s[n - 3] = "," /\ IsDigit(s[n - 2]) /\ IsDigit(s[n - 1]) /\ IsDigit(s[n])

---------------------------------------------------------------------------
(* time_convert: C1-C3 *)

\* C1: for every non-negative integer ms, time_convert(ms) is exactly H:MM:SS,mmm
\* with mmm = ms mod 1000 in three digits, SS = (ms div 1000) mod 60 and
\* MM = (ms div 60000) mod 60 in two digits, and H = ms div 3600000 in full decimal,
\* in at least two digits, never wrapped or capped (86400000 -> 24:00:00,000,
\* 360000000 -> 100:00:00,000).
C1_TimeConvertExact ==
    (tc_pc = "returned" /\ ms >= 0) =>
        /\ tc_result = ExpectedTime(ms)
        /\ ms = 86400000 =>
              tc_result = <<"2", "4", ":", "0", "0", ":", "0", "0", ",", "0", "0", "0">>
        /\ ms = 360000000 =>
              tc_result = <<"1", "0", "0", ":", "0", "0", ":", "0", "0", ",", "0", "0", "0">>

\* C1's case: 100 hours have been converted, in three hour digits
C1_Witness ==
    /\ tc_pc = "returned"
    /\ ms = 360000000
    /\ Len(tc_result) = 13
    /\ SubSeq(tc_result, 1, 3) = <<"1", "0", "0">>

\* C2: for all ms, whatever the sign, every string time_convert returns has length
\* >= 12 and matches \d{2,}:\d{2}:\d{2},\d{3}.
C2_PatternForAllMs ==
    tc_pc = "returned" => (Len(tc_result) >= 12 /\ MatchesTimePattern(tc_result))

\* C3: time_convert rejects a negative ms: for every ms < 0 it fails instead of
\* returning a formatted time string.
C3_NegativeRejected == ms < 0 => tc_pc # "returned"

---------------------------------------------------------------------------
(* generate_srt: C4-C10 *)

\* the step of the for loop that handles sentence_list[pos]
LoopStep == pc = "loop" /\ pos <= Len(sentence_list) /\ pos' = pos + 1

\* the entry that sentence j was merged into
CueOf(j) == CHOOSE k \in 1..Len(cues) : cues[k].first <= j /\ j <= cues[k].last

\* the positions of the sentences merged into each entry written
Runs == [k \in 1..Len(cues) |-> <<cues[k].first, cues[k].last>>]

C5_SpeakerBoundary ==
    pc = "done" =>
        \A j \in 1..(Len(sentence_list) - 1) :
            LET a == sentence_list[j]
                b == sentence_list[j + 1]
            IN  /\ a.spk # b.spk => CueOf(j) # CueOf(j + 1)
                /\ (a.spk = Absent /\ b.spk = Absent
                        /\ sent_start(b) - sent_end(a) <= merge_threshold)
                    => CueOf(j) = CueOf(j + 1)

\* C5's case: speaker 0 follows a sentence without speaker at a negative gap, and
\* they are in different cues
C5_Witness ==
    /\ pc = "done"
    /\ \E j \in 1..(Len(sentence_list) - 1) :
          /\ sentence_list[j].spk = Absent
          /\ sentence_list[j + 1].spk = PyInt(0)
          /\ sent_start(sentence_list[j + 1]) - sent_end(sentence_list[j]) < 0
          /\ CueOf(j) # CueOf(j + 1)

\* C6: the end_ms of an emitted cue is the end of the last fragment folded into it,
\* not the maximum end seen (A(0,2000), B(2100,1900), same speaker, threshold 1000:
\* one cue with end_ms = 1900).
C6_EndOfLastFragment ==
    /\ \A k \in 1..Len(cues) : cues[k].end_ms = sent_end(sentence_list[cues[k].last])
    /\ (pc = "done" /\ sentence_list = EndOverwriteFixture /\ merge_threshold = 1000) =>
          (Len(cues) = 1 /\ cues[1].end_ms = 1900)

\* C6's case: A and B of the scenario are one cue, ending before A ends
C6_Witness ==
    /\ pc = "done"
    /\ sentence_list = EndOverwriteFixture
    /\ merge_threshold = 1000
    /\ Len(cues) = 1
    /\ cues[1].last = 2
    /\ cues[1].end_ms < sent_end(sentence_list[1])


\* C7: a fold changes only the open cue's end_ms and text: its start_ms and speaker
\* stay those of the fragment that opened it, and the index counter and the output
\* already emitted are unchanged. Hence every emitted cue's start_ms and speaker are
\* those of its first fragment.
C7_FoldFrame ==
    /\ [][(LoopStep /\ cues' = cues) =>
            /\ current_start' = current_start
            /\ current_spk' = current_spk
            /\ index' = index
            /\ srt_total' = srt_total]_vars
    /\ [](\A k \in 1..Len(cues) :
            /\ cues[k].start_ms = sent_start(sentence_list[cues[k].first])
            /\ cues[k].speaker = sent_spk(sentence_list[cues[k].first]))

\* C7's case: a cue of several fragments, the last of which starts elsewhere than
\* the cue, has been emitted
C7_Witness ==
    /\ pc = "done"
    /\ \E k \in 1..Len(cues) :
          /\ cues[k].first < cues[k].last
          /\ sent_start(sentence_list[cues[k].last]) # cues[k].start_ms

\* the texts of sentences j..last, one space between consecutive ones
RECURSIVE JoinedTexts(_, _)
JoinedTexts(j, last) ==
    IF j = last THEN ValOf(sentence_list[j].text)
    ELSE ValOf(sentence_list[j].text) \o <<" ">> \o JoinedTexts(j + 1, last)

\* C8: the text of an emitted cue is the texts of the fragments folded into it, in
\* fold order, joined by exactly one space, with no trimming: an empty text
\* contributes an empty string, so that the merged text has a double space (or a
\* leading or trailing one).
C8_TextJoined ==
    \A k \in 1..Len(cues) :
        /\ TypeOf(cues[k].text) = "str"
        /\ ValOf(cues[k].text) = JoinedTexts(cues[k].first, cues[k].last)

\* C8's case: an empty text was folded in between "b" and "b": a double space
C8_Witness ==
    /\ pc = "done"
    /\ \E k \in 1..Len(cues) :
          /\ cues[k].last = cues[k].first + 2
          /\ ValOf(sentence_list[cues[k].first + 1].text) = <<>>
          /\ ValOf(cues[k].text) = <<"b", " ", " ", "b">>

\* C9: the k-th emitted cue carries index k: the first index is 1, each later one
\* the previous plus 1, and the last index is the number of cues.
C9_SequentialIndex ==
    /\ \A k \in 1..Len(cues) :
          /\ cues[k].index = k
          /\ SubSeq(srt_total, cues[k].offset + 1, cues[k].offset + Len(Decimal(k)) + 1)
                = Decimal(k) \o <<"\n">>
    /\ (pc = "done" /\ cues # <<>>) => index = Len(cues)

\* C9's case: three cues have been emitted, the third under index 3
C9_Witness ==
    /\ pc = "done"
    /\ Len(cues) = 3
    /\ cues[3].index = 3
    /\ index = 3

\* the block of a cue: index line, time-range line, text line (with the speaker
\* marker when there is a speaker), empty line
ExpectedBlock(c) ==
    Decimal(c.index) \o <<"\n">>
        \o time_convert(c.start_ms) \o <<" ", "-", "-", ">", " ">>
        \o time_convert(c.end_ms) \o <<"\n">>
        \o (IF c.speaker = PyNone THEN ValOf(c.text)
            ELSE <<"[", "s", "p", "k">> \o Decimal(ValOf(c.speaker)) \o <<"]", " ">>
                     \o ValOf(c.text))
        \o <<"\n", "\n">>

RECURSIVE ExpectedBlocks(_)
ExpectedBlocks(cs) ==
    IF cs = <<>> THEN <<>>
    ELSE ExpectedBlocks(SubSeq(cs, 1, Len(cs) - 1)) \o ExpectedBlock(cs[Len(cs)])

\* C10: the string generate_srt returns is exactly the concatenation, in index
\* order, of one four-line block per cue: the index, '<start> --> <end>' with both
\* times produced by time_convert from the cue's start_ms and end_ms, the text line,
\* an empty line; nothing before, between or after the blocks.
C10_OutputIsBlocks == pc = "done" => srt_total = ExpectedBlocks(cues)


---------------------------------------------------------------------------
(* generate_srt: C11-C19 *)

\* what was appended to srt_total for the k-th entry
BlockOf(k) ==
    SubSeq(srt_total, cues[k].offset + 1,
           IF k < Len(cues) THEN cues[k + 1].offset ELSE Len(srt_total))

\* the index line and the time-range line of the entry as it is written for no speaker
LinesBeforeText(c) ==
    LET plain == WriteEntry(c.index, PyNone, c.start_ms, c.end_ms, c.text)
    IN  SubSeq(plain, 1, Len(plain) - Len(ValOf(c.text)) - 2)

\* C11: for every emitted cue with a speaker the marker '[spk<id>] ' is applied
\* exactly once, at the front of the text line only: the text line is the marker and
\* the merged text, and the index line and the time-range line are those rendered
\* for the same cue without a speaker, for every merged text (the empty text and a
\* text that occurs in the time-range line included).
C11_MarkerOnceOnTextLine ==
    \A k \in 1..Len(cues) :
        cues[k].speaker # PyNone =>
            BlockOf(k) = LinesBeforeText(cues[k])
                            \o <<"[", "s", "p", "k">> \o Decimal(ValOf(cues[k].speaker))
                            \o <<"]", " ">> \o ValOf(cues[k].text) \o <<"\n", "\n">>


\* the texts of the first k entries written, one space between consecutive ones
RECURSIVE CueTextsJoined(_)
CueTextsJoined(k) ==
    IF k = 1 THEN ValOf(cues[1].text)
    ELSE CueTextsJoined(k - 1) \o <<" ">> \o ValOf(cues[k].text)

\* C12: the emitted cues partition the fragment sequence into contiguous non-empty
\* runs in input order: every fragment is in exactly one cue, none is dropped or
\* duplicated, the cue open after the last fragment is always emitted, and an empty
\* input yields the empty string with zero cues.
C12_CuesPartitionInput ==
    /\ \A k \in 1..Len(cues) :
          /\ cues[k].first <= cues[k].last
          /\ cues[k].first = (IF k = 1 THEN 1 ELSE cues[k - 1].last + 1)
    /\ (pc = "done" /\ sentence_list # <<>>) =>
          /\ cues # <<>>
          /\ cues[Len(cues)].last = Len(sentence_list)
          /\ CueTextsJoined(Len(cues)) = JoinedTexts(1, Len(sentence_list))
    /\ (pc = "done" /\ sentence_list = <<>>) => (cues = <<>> /\ srt_total = <<>>)

\* C12's case: three fragments have been emitted as the runs 1-2 and 3
C12_Witness ==
    /\ pc = "done"
    /\ Len(sentence_list) = 3
    /\ Runs = << <<1, 2>>, <<3, 3>> >>


---------------------------------------------------------------------------
(* generate_srt as a function of its arguments, from the same steps *)

\* lines 82-100 and 142-145: the open entry initialised from a sentence
OpenEntry(sent) ==
    [speaker |-> sent_spk(sent), start_ms |-> sent_start(sent),
     end_ms |-> sent_end(sent), text |-> sent_text(sent)]

\* lines 102-148: the entries written from sentence p on, cur being the open entry
\* and written the entries written before
RECURSIVE MergeFrom(_, _, _, _, _)
MergeFrom(list, threshold, p, cur, written) ==
    IF p > Len(list) THEN Append(written, cur)
    ELSE LET sent == list[p]
         IN  IF ShouldMerge(sent_spk(sent), sent_start(sent), cur.speaker, cur.end_ms,
                            threshold)
             THEN MergeFrom(list, threshold, p + 1,
                            [cur EXCEPT !.start_ms = MergedStart(@, sent_start(sent)),
                                        !.end_ms = MergedEnd(@, sent_end(sent)),
                                        !.text = MergedText(@, sent_text(sent))],
                            written)
             ELSE MergeFrom(list, threshold, p + 1, OpenEntry(sent), Append(written, cur))

\* lines 78-148: the entries generate_srt writes
MergedEntries(list, threshold) ==
    IF list = <<>> THEN <<>> ELSE MergeFrom(list, threshold, 2, OpenEntry(list[1]), <<>>)

\* lines 132-139 and 148-154: the entries from the k-th on, written from index idx on
RECURSIVE WriteFrom(_, _, _)
WriteFrom(entries, k, idx) ==
    IF k > Len(entries) THEN <<>>
    ELSE WriteEntry(idx, entries[k].speaker, entries[k].start_ms, entries[k].end_ms,
                    entries[k].text)
             \o WriteFrom(entries, k + 1, NextIndex(idx))

\* lines 67-156
generate_srt(list, threshold) == WriteFrom(MergedEntries(list, threshold), 1, 1)

---------------------------------------------------------------------------
(* generate_srt: C13-C15 *)

\* the thresholds a call is compared under
ComparedThresholds == (-1..3) \cup FixtureThresholds

CueCount(list, threshold) == Len(MergedEntries(list, threshold))

\* C13: threshold monotonicity: for a fixed fragment sequence and thresholds
\* t1 <= t2, the number of cues emitted with t2 is at most the number emitted with t1.
C13_ThresholdMonotone ==
    pc = "done" =>
        /\ Len(cues) = CueCount(sentence_list, merge_threshold)
        /\ \A t \in ComparedThresholds :
              /\ t >= merge_threshold => CueCount(sentence_list, t) <= Len(cues)
              /\ t <= merge_threshold => CueCount(sentence_list, t) >= Len(cues)

\* C13's case: a call at threshold 0 has returned more cues than threshold 1 gives
C13_Witness ==
    /\ pc = "done"
    /\ merge_threshold = 0
    /\ CueCount(sentence_list, 1) < Len(cues)

\* the entries written, as entries
CuesAsEntries ==
    [k \in 1..Len(cues) |->
        [speaker |-> cues[k].speaker, start_ms |-> cues[k].start_ms,
         end_ms |-> cues[k].end_ms, text |-> cues[k].text]]

\* each entry written as a fragment: its speaker, its merged text, its one interval
CuesAsSentences ==
    [k \in 1..Len(cues) |->
        [text |-> cues[k].text,
         timestamp |-> PyList(<<Pair(cues[k].start_ms, cues[k].end_ms)>>),
         spk |-> IF cues[k].speaker = PyNone THEN Absent ELSE cues[k].speaker]]

\* C14: merge idempotence: the cues emitted at threshold T, each taken as a fragment
\* with the cue's speaker, merged text and single interval (start_ms, end_ms), and
\* merged again at T, give the same number of cues with the same speaker, start_ms,
\* end_ms and text: the same output string.
C14_MergeIdempotent ==
    pc = "done" =>
        /\ MergedEntries(CuesAsSentences, merge_threshold) = CuesAsEntries
        /\ generate_srt(CuesAsSentences, merge_threshold) = srt_total

\* C14's case: a call that merged three fragments into two cues has returned
C14_Witness ==
    /\ pc = "done"
    /\ Len(sentence_list) = 3
    /\ Len(cues) = 2
    /\ Len(MergedEntries(CuesAsSentences, merge_threshold)) = 2


\* C15: on the fragments A(0,2000,spk 0), B(2100,4000,spk 0), C(4050,6000,spk 0),
\* D(6500,8000,spk 1), E(8200,10000,spk 0) merged at threshold 1000, generate_srt
\* emits exactly 3 cues: speaker 0, 0 -> 6000, 'A B C'; speaker 1, 6500 -> 8000, 'D';
\* speaker 0, 8200 -> 10000, 'E': the resuming speaker does not rejoin its earlier cue.
C15_FixtureAtThreshold1000 ==
    (pc = "done" /\ sentence_list = Fixture /\ merge_threshold = 1000) =>
        /\ CuesAsEntries =
              << [speaker |-> PyInt(0), start_ms |-> 0, end_ms |-> 6000,
                  text |-> PyStr(<<"A", " ", "B", " ", "C">>)],
                 [speaker |-> PyInt(1), start_ms |-> 6500, end_ms |-> 8000,
                  text |-> PyStr(<<"D">>)],
                 [speaker |-> PyInt(0), start_ms |-> 8200, end_ms |-> 10000,
                  text |-> PyStr(<<"E">>)] >>
        /\ <<cues[1].index, cues[2].index, cues[3].index>> = <<1, 2, 3>>
        /\ <<cues[1].last, cues[2].last, cues[3].last>> = <<3, 4, 5>>

\* C15's case: the call on the five fragments at threshold 1000 has returned
C15_Witness ==
    /\ pc = "done"
    /\ sentence_list = Fixture
    /\ merge_threshold = 1000
    /\ Len(cues) = 3


---------------------------------------------------------------------------
(* generate_srt: C16, the two timestamp shapes *)

\* a (start, end) pair of numbers
IsPair(v) ==
    /\ TypeOf(v) \in {"list", "tuple"}
    /\ Len(ValOf(v)) = 2
    /\ \A i \in 1..2 : TypeOf(ValOf(v)[i]) = "int"

\* a single flat [start, end]
IsFlatPair(ts) == TypeOf(ts) = "list" /\ IsPair(ts)

\* a sequence of (start, end) pairs
IsPairSequence(ts) ==
    /\ TypeOf(ts) = "list"
    /\ ValOf(ts) # <<>>
    /\ \A i \in 1..Len(ValOf(ts)) : IsPair(ValOf(ts)[i])

\* the interval the two shapes stand for
ExpectedInterval(ts) ==
    LET items == ValOf(ts)
    IN  IF IsFlatPair(ts) THEN <<ValOf(items[1]), ValOf(items[2])>>
        ELSE <<ValOf(ValOf(items[1])[1]), ValOf(ValOf(items[Len(items)])[2])>>

\* C16: timestamp normalization accepts both shapes and treats the first fragment and
\* later fragments identically: a sequence of (start,end) pairs gives (first pair's
\* start, last pair's end); a single flat [start, end] pair gives (start, end).
C16_BothTimestampShapes ==
    /\ \A i \in 1..Len(sentence_list) :
          LET ts == sentence_list[i].timestamp
          IN  (IsFlatPair(ts) \/ IsPairSequence(ts)) =>
                 /\ ReadsCleanly(sentence_list[i])
                 /\ <<sent_start(sentence_list[i]), sent_end(sentence_list[i])>>
                       = ExpectedInterval(ts)
    /\ pc = "loop" =>
          /\ current_start = ExpectedInterval(sentence_list[current_first].timestamp)[1]
          /\ current_end = ExpectedInterval(sentence_list[pos - 1].timestamp)[2]
    /\ \A k \in 1..Len(cues) :
          /\ cues[k].start_ms = ExpectedInterval(sentence_list[cues[k].first].timestamp)[1]
          /\ cues[k].end_ms = ExpectedInterval(sentence_list[cues[k].last].timestamp)[2]

\* C16's case: a call has returned whose first fragment was a sequence of two pairs
\* and whose second cue was opened by a flat pair and closed by a sequence of two pairs
C16_Witness ==
    /\ pc = "done"
    /\ Len(cues) = 2
    /\ Len(ValOf(sentence_list[1].timestamp)) = 2
    /\ IsPairSequence(sentence_list[1].timestamp)
    /\ IsFlatPair(sentence_list[2].timestamp)
    /\ cues[2].first = 2
    /\ cues[2].last = 3
    /\ IsPairSequence(sentence_list[3].timestamp)
    /\ cues[2].end_ms = 2


---------------------------------------------------------------------------
(* generate_srt: C17-C19, timestamps and texts of other shapes *)

Recognised(ts) == IsFlatPair(ts) \/ IsPairSequence(ts)

\* a 'timestamp' value of neither shape
Unrecognised(ts) == ts # Absent /\ ~Recognised(ts)

\* no 'timestamp' field, or an empty list
MissingOrEmpty(ts) == ts = Absent \/ ts = PyList(<<>>)

\* the sentences of the call all have a str text
TextsAreStr == \A i \in 1..Len(sentence_list) : TypeOf(sentence_list[i].text) = "str"

\* the k-th entry written starts at 0, ends at 0
ZeroStart(k) == cues[k].start_ms = 0
ZeroEnd(k) == cues[k].end_ms = 0

\* C17: for any fragment whose timestamp value has neither recognised shape (a
\* one-element flat list, a tuple, a list whose first element has fewer than 2 items,
\* a list of pairs whose last element is not a pair, a non-sequence), generate_srt
\* uses start = 0 and end = 0 for it and completes the merge without raising.
C17_UnrecognisedShapeIsZero ==
    (TextsAreStr /\ \A i \in 1..Len(sentence_list) : sentence_list[i].timestamp # Absent) =>
        /\ pc # "raised"
        /\ \A k \in 1..Len(cues) :
              /\ Unrecognised(sentence_list[cues[k].first].timestamp) => ZeroStart(k)
              /\ Unrecognised(sentence_list[cues[k].last].timestamp) => ZeroEnd(k)

\* C18: a fragment whose interval list is missing (no timestamp field) or empty is
\* given start_ms = end_ms = 0, a zero-duration cue when it opens one, and
\* generate_srt does not raise for it, first fragment or later.
C18_MissingOrEmptyIsZero ==
    (TextsAreStr /\ \A i \in 1..Len(sentence_list) :
                        \/ MissingOrEmpty(sentence_list[i].timestamp)
                        \/ Recognised(sentence_list[i].timestamp)) =>
        /\ pc # "raised"
        /\ \A k \in 1..Len(cues) :
              /\ MissingOrEmpty(sentence_list[cues[k].first].timestamp) => ZeroStart(k)
              /\ MissingOrEmpty(sentence_list[cues[k].last].timestamp) => ZeroEnd(k)

\* C19: generate_srt accepts a fragment whose text is a sequence of tokens as well as
\* a string: opening a cue or folded into one, with or without a speaker, it is
\* merged and rendered without an error.
C19_TokenTextAccepted ==
    (\A i \in 1..Len(sentence_list) : Recognised(sentence_list[i].timestamp)) =>
        pc # "raised"


---------------------------------------------------------------------------
(* time_convert: C20, a float ms *)

\* the integer t with t <= num/den < t + 1, for num/den >= 0
Truncated(f) ==
    CHOOSE t \in (f[2] \div f[3] - 1)..(f[2] \div f[3] + 1) :
        t * f[3] <= f[2] /\ f[2] < (t + 1) * f[3]

\* C20: for a non-negative non-integer ms, time_convert(ms) equals time_convert of
\* ms truncated toward zero, with no rounding (2180.9 -> '00:00:02,180',
\* 2379.9 -> '00:00:02,379').
C20_FloatTruncated ==
    tc_pc = "returned" =>
        /\ tc_result = time_convert(Truncated(ms))
        /\ tc_result = ExpectedTime(Truncated(ms))
        /\ ms = PyFloat(21809, 10) =>
              tc_result = <<"0", "0", ":", "0", "0", ":", "0", "2", ",", "1", "8", "0">>
        /\ ms = PyFloat(23799, 10) =>
              tc_result = <<"0", "0", ":", "0", "0", ":", "0", "2", ",", "3", "7", "9">>

\* C20's case: 2180.9 has been converted
C20_Witness ==
    /\ tc_pc = "returned"
    /\ ms = PyFloat(21809, 10)
    /\ tc_result = <<"0", "0", ":", "0", "0", ":", "0", "2", ",", "1", "8", "0">>


---------------------------------------------------------------------------
(* generate_srt: C23-C24, the fixture at thresholds 100 and 50 *)

\* C23: on the five-sentence fixture with merge_threshold = 100, only the first two
\* sentences merge: block 1 spans 0 ms to 4000 ms and block 2 spans 4050 ms to 6000 ms.
C23_FixtureAtThreshold100 ==
    (pc = "done" /\ sentence_list = Fixture /\ merge_threshold = 100) =>
        /\ Len(cues) >= 2
        /\ <<cues[1].first, cues[1].last>> = <<1, 2>>
        /\ <<cues[1].start_ms, cues[1].end_ms>> = <<0, 4000>>
        /\ <<cues[2].start_ms, cues[2].end_ms>> = <<4050, 6000>>

\* C24: on the five-sentence fixture with merge_threshold = 50, no merging occurs:
\* each of the five sentences is emitted as its own cue.
C24_FixtureAtThreshold50 ==
    (pc = "done" /\ sentence_list = Fixture /\ merge_threshold = 50) =>
        /\ Len(cues) = 5
        /\ \A k \in 1..Len(cues) : cues[k].first = k /\ cues[k].last = k


---------------------------------------------------------------------------
(* generate_srt: C28-C29, the loop invariant and the order of the cues *)

\* sentence j was merged into the entry of sentence j - 1
FoldedAt(j) ==
    \/ pc = "loop" /\ current_first < j /\ j < pos
    \/ \E k \in 1..Len(cues) : cues[k].first < j /\ j <= cues[k].last

\* what sentences j - 1 and j and the threshold say about merging sentence j
AdjacentMerge(j) ==
    /\ sent_spk(sentence_list[j]) = sent_spk(sentence_list[j - 1])
    /\ ExpectedInterval(sentence_list[j].timestamp)[1]
           - ExpectedInterval(sentence_list[j - 1].timestamp)[2] <= merge_threshold

\* the sentences the loop has handled
Handled == IF pc = "start" THEN 0 ELSE pos - 1

\* C28: at the start of every iteration of the merge loop the open cue's end_ms and
\* speaker are the normalized end and the speaker of the immediately preceding
\* fragment, folded or not; so whether fragment i is folded depends only on
\* fragments i-1 and i and the threshold.
C28_LoopInvariant ==
    /\ pc = "loop" =>
          /\ current_end = ExpectedInterval(sentence_list[pos - 1].timestamp)[2]
          /\ current_spk = sent_spk(sentence_list[pos - 1])
    /\ \A j \in 2..Handled : FoldedAt(j) <=> AdjacentMerge(j)

\* C28's case: the third iteration starts after a fold that moved the open entry's
\* end back, and the third sentence does not merge although it would have merged
\* with the first
C28_Witness ==
    /\ pc = "loop"
    /\ pos = 3
    /\ Len(sentence_list) = 3
    /\ FoldedAt(2)
    /\ current_end < ExpectedInterval(sentence_list[1].timestamp)[2]
    /\ sent_spk(sentence_list[3]) = current_spk
    /\ ~AdjacentMerge(3)
    /\ ExpectedInterval(sentence_list[3].timestamp)[1]
           - ExpectedInterval(sentence_list[1].timestamp)[2] <= merge_threshold

\* every fragment has start <= end, and the starts do not decrease
FragmentsOrdered ==
    /\ \A i \in 1..Len(sentence_list) :
          ExpectedInterval(sentence_list[i].timestamp)[1]
              <= ExpectedInterval(sentence_list[i].timestamp)[2]
    /\ \A i \in 2..Len(sentence_list) :
          ExpectedInterval(sentence_list[i - 1].timestamp)[1]
              <= ExpectedInterval(sentence_list[i].timestamp)[1]

\* C29: if every fragment has fragment_start <= fragment_end and the fragments come
\* in non-decreasing fragment_start order, every cue emitted has start_ms <= end_ms
\* and the cues' start_ms do not decrease in index order, for every threshold and
\* speaker assignment.
C29_CuesOrdered ==
    FragmentsOrdered =>
        /\ \A k \in 1..Len(cues) : cues[k].start_ms <= cues[k].end_ms
        /\ \A k \in 2..Len(cues) : cues[k - 1].start_ms <= cues[k].start_ms

\* C29's case: three ordered fragments have given a merged cue and a later cue
C29_Witness ==
    /\ pc = "done"
    /\ FragmentsOrdered
    /\ Runs = << <<1, 2>>, <<3, 3>> >>
    /\ cues[1].start_ms < cues[1].end_ms
    /\ cues[1].start_ms < cues[2].start_ms


---------------------------------------------------------------------------
(* parse_srt_time_to_ms and the reading back of a rendered cue: C30 *)

ValueError == <<"ValueError", 0>>

\* the places in s where sep occurs
Occurrences(s, sep) ==
    {i \in 1..(Len(s) - Len(sep) + 1) : SubSeq(s, i, i + Len(sep) - 1) = sep}

RECURSIVE SplitFrom(_, _, _)
\* the parts of s from place from on, cut at the occurrences of sep taken from the
\* left, none overlapping the one before it
SplitFrom(s, sep, from) ==
    LET ahead == {i \in Occurrences(s, sep) : i >= from}
        first == CHOOSE i \in ahead : \A j \in ahead : i <= j
    IN  IF ahead = {} THEN <<SubSeq(s, from, Len(s))>>
        ELSE <<SubSeq(s, from, first - 1)>> \o SplitFrom(s, sep, first + Len(sep))

\* s.split(sep), sep not empty
split(s, sep) == SplitFrom(s, sep, 1)

\* sub in s
Contains(s, sub) == Len(split(s, sub)) > 1

RECURSIVE strip(_)
\* s.strip() of spaces
strip(s) ==
    IF s = <<>> THEN s
    ELSE IF Head(s) = " " THEN strip(Tail(s))
    ELSE IF s[Len(s)] = " " THEN strip(SubSeq(s, 1, Len(s) - 1))
    ELSE s

DigitValue(c) == (CHOOSE k \in 1..10 : Digits[k] = c) - 1

RECURSIVE NatOfDigits(_)
NatOfDigits(s) ==
    IF s = <<>> THEN 0
    ELSE 10 * NatOfDigits(SubSeq(s, 1, Len(s) - 1)) + DigitValue(s[Len(s)])

\* int(s) of a str: spaces around, a sign, decimal digits; ValueError otherwise
int_str(s) ==
    LET t      == strip(s)
        signed == t # <<>> /\ t[1] \in {"+", "-"}
        digits == IF signed THEN Tail(t) ELSE t
    IN  IF digits = <<>> \/ \E k \in 1..Len(digits) : ~IsDigit(digits[k]) THEN ValueError
        ELSE PyInt(IF signed /\ t[1] = "-" THEN -NatOfDigits(digits) ELSE NatOfDigits(digits))

\* test_time_convert.py lines 184-192
parse_srt_time_to_ms(time_str) ==
    LET halves == split(time_str, <<",">>)
        fields == split(halves[1], <<":">>)
        h      == int_str(fields[1])
        m      == int_str(fields[2])
        s      == int_str(fields[3])
        mmm    == int_str(halves[2])
    IN  IF Len(halves) # 2 THEN ValueError
        ELSE IF Len(fields) # 3 THEN ValueError
        ELSE IF ValueError \in {h, m, s, mmm} THEN ValueError
        ELSE PyInt((ValOf(h) * 3600 + ValOf(m) * 60 + ValOf(s)) * 1000 + ValOf(mmm))

\* test_time_convert.py lines 171-176: the duration read from a line 'start --> end'
LineDuration(line) ==
    LET parts    == split(line, <<" ", "-", "-", ">", " ">>)
        start_ms == parse_srt_time_to_ms(parts[1])
        end_ms   == parse_srt_time_to_ms(parts[2])
    IN  IF ValueError \in {start_ms, end_ms} THEN ValueError
        ELSE PyInt(ValOf(end_ms) - ValOf(start_ms))

RECURSIVE DurationsOf(_)
\* test_time_convert.py lines 166-176: the durations read from the lines that
\* contain '-->' and split in two at ' --> '
DurationsOf(lines) ==
    IF lines = <<>> THEN <<>>
    ELSE IF Contains(Head(lines), <<"-", "-", ">">>)
              /\ Len(split(Head(lines), <<" ", "-", "-", ">", " ">>)) = 2
         THEN <<LineDuration(Head(lines))>> \o DurationsOf(Tail(lines))
         ELSE DurationsOf(Tail(lines))

ReadBackDurations(srt_result) == DurationsOf(split(srt_result, <<"\n">>))

\* time_convert read back gives ms again, and no other input gives the same string
RoundTrip(m) ==
    /\ parse_srt_time_to_ms(time_convert(m)) = PyInt(m)
    /\ \A m2 \in MsInputs : (m2 >= 0 /\ time_convert(m2) = time_convert(m)) => m2 = m

\* the round trip for every non-negative ms time_convert was called on
RoundTripOfTimeConvert == (tc_pc = "returned" /\ ms >= 0) => RoundTrip(ms)

\* C30: round trip: for every non-negative integer ms, parsing time_convert(ms) as
\* (h*3600 + m*60 + s)*1000 + mmm (parse_srt_time_to_ms) returns ms, so time_convert
\* is injective on non-negative integers and the duration read back from a rendered
\* cue equals end_ms - start_ms.
C30_RoundTrip ==
    \A k \in 1..Len(cues) :
        (cues[k].start_ms >= 0 /\ cues[k].end_ms >= 0) =>
            /\ parse_srt_time_to_ms(time_convert(cues[k].start_ms)) = PyInt(cues[k].start_ms)
            /\ parse_srt_time_to_ms(time_convert(cues[k].end_ms)) = PyInt(cues[k].end_ms)
            /\ ReadBackDurations(BlockOf(k)) = <<PyInt(cues[k].end_ms - cues[k].start_ms)>>


---------------------------------------------------------------------------
(* generate_srt and time_convert: C21, no state and no side effect *)

\* C21: generate_srt and time_convert keep no state between calls and do not modify
\* their arguments: the sentence list and each fragment in it are unchanged after a
\* call, and under any interleaving of invocations on independent inputs each
\* invocation returns what it returns when run alone.
C21_NoStateNoSideEffect ==
    /\ [][sentence_list' = sentence_list /\ merge_threshold' = merge_threshold /\ ms' = ms]_vars
    /\ [](tc_pc = "returned" => tc_result = time_convert(ms))
    /\ [](pc = "done" => srt_total = generate_srt(sentence_list, merge_threshold))


---------------------------------------------------------------------------
(* ASRProcessor.process_file (asr_processor.py) *)

\* a parameter with a default: the argument, or the default if the caller gave none
WithDefault(arg, default) == IF arg = Absent THEN PyInt(default) ELSE arg

\* merge_threshold=8000 in the signature of generate_srt
GenerateSrtMergeThreshold == 8000
\* merge_threshold: int = 8000 in the signature of process_file
ProcessFileMergeThreshold == 8000
\* merge_threshold: int = Form(8000, ...) in the signature of transcribe_file
FormMergeThreshold == 8000

generate_srt_merge_threshold(arg) == WithDefault(arg, GenerateSrtMergeThreshold)

\* process_file that calls generate_srt without its merge_threshold
process_file_merge_threshold_dropped(arg) == Absent

\* process_file's merge_threshold, as line 303 passes it on
process_file_merge_threshold(arg) == WithDefault(arg, ProcessFileMergeThreshold)

\* transcribe_file's merge_threshold, as line 171 passes it on
transcribe_file_merge_threshold(arg) == WithDefault(arg, FormMergeThreshold)

\* asr_processor.py line 234
VideoSuffixes == {".mp4", ".avi", ".mkv", ".mov", ".webm", ".ts", ".mpeg"}

\* asr_processor.py line 302
NeedsSrt(output_format) == output_format \in {"srt", "both"}

\* process_file returning the text for 'srt'
TranscriptionOf_text(output_format, text_result, srt_content) == text_result

\* asr_processor.py lines 305-311
TranscriptionOf(output_format, text_result, srt_content) ==
    IF NeedsSrt(output_format) /\ output_format = "srt" THEN srt_content ELSE text_result

RECURSIVE SpeakersOf(_)
\* asr_processor.py lines 319-323: f"spk{sentence['spk']}" of the sentences that
\* have 'spk', each once, in order
SpeakersOf(sentence_info) ==
    IF sentence_info = <<>> THEN <<>>
    ELSE LET n      == Len(sentence_info)
             before == SpeakersOf(SubSeq(sentence_info, 1, n - 1))
             spk    == sentence_info[n].spk
             spk_id == <<"s", "p", "k">> \o str(ValOf(spk))
         IN  IF spk = Absent \/ \E k \in 1..Len(before) : before[k] = spk_id
             THEN before
             ELSE Append(before, spk_id)

\* process_file, lines 227-348 (the audio's duration is left out of result_dict).
\* What a call does: whether it raises, the dict it returns, the calls of
\* generate_srt it makes, and the temporary audio file it creates and leaves.
process_file(suffix, output_format, language, enable_speaker_diarization, hotwords_dict, threshold_arg, env) ==
    LET is_video    == suffix \in VideoSuffixes
        extracted   == IF is_video THEN {"temp_audio"} ELSE {}
        threshold   == process_file_merge_threshold(threshold_arg)
        srt_call    == [sentence_list |-> env.sentence_info, merge_threshold |-> threshold]
        srt_content == PyStr(generate_srt(env.sentence_info,
                                          ValOf(generate_srt_merge_threshold(threshold))))
        args        == [output_format |-> output_format, language |-> language,
                        enable_speaker_diarization |-> enable_speaker_diarization,
                        hotwords_dict |-> hotwords_dict, merge_threshold |-> threshold_arg]
    IN  IF is_video /\ env.fails = "extract"
        THEN \* lines 160-171 and 180-182: the file created at line 160 stays
             [raised |-> TRUE, args |-> args, srt_calls |-> <<>>,
              created |-> extracted, left |-> extracted]
        ELSE IF env.fails = "recognise"
        THEN \* lines 246-278 raise; the finally at lines 340-344 unlinks
             [raised |-> TRUE, args |-> args, srt_calls |-> <<>>,
              created |-> extracted, left |-> {}]
        ELSE [raised |-> FALSE, args |-> args,
              srt_calls |-> IF NeedsSrt(output_format) THEN <<srt_call>> ELSE <<>>,
              created |-> extracted, left |-> {},
              result |->
                 [transcription |-> TranscriptionOf(output_format, env.text_result,
                                                    srt_content),
                  speakers |-> IF enable_speaker_diarization
                               THEN SpeakersOf(env.sentence_info) ELSE <<>>,
                  language |-> language,
                  format |-> output_format,
                  transcription_srt |-> IF output_format = "both" THEN srt_content
                                        ELSE Absent]]


---------------------------------------------------------------------------
(* The endpoints (main.py). asr_processor is set at startup (lines 59-73: a     *)
(* failed startup raises and the server does not serve), so the 503 branches    *)
(* at lines 117 and 224 are not taken.                                          *)

\* the character '\x00'
NUL == "U+0000"

\* raise HTTPException(status_code=...)
HTTPException(status_code) == [status_code |-> status_code, success |-> FALSE]

\* bool(x) of a str or None
Truthy(v) == v \notin {Absent, PyNone} /\ ValOf(v) # <<>>

\* str(x).replace('\x00', ''): every occurrence of the one character is dropped
WithoutNul(v) == PyStr(SelectSeq(ValOf(v), LAMBDA c : c # NUL))

\* main.py lines 181-182: str(x).replace('\x00', '') if x else ...
Cleaned(v, otherwise) == IF Truthy(v) THEN WithoutNul(v) ELSE otherwise

\* main.py lines 121-135
AllowedExtensions ==
    {".wav", ".mp3", ".aac", ".m4a", ".flac", ".mp4", ".avi", ".mkv", ".mov", ".webm"}
ValidTranscribeRequest(req) ==
    /\ req.output_format \in {"text", "srt", "both"}
    /\ req.language \in {"zh", "en"}
    /\ req.suffix \in AllowedExtensions

\* main.py lines 177-202: the TranscriptionResponse of transcribe_file
TranscribeFileResponse(result, req) ==
    LET srt_content == IF req.output_format = "both"
                       THEN Get(result, "transcription_srt", PyNone) ELSE PyNone
    IN  [status_code |-> 200,
         success |-> TRUE,
         transcription |-> Cleaned(result.transcription, PyStr(<<>>)),
         transcription_srt |-> Cleaned(srt_content, PyNone),
         format |-> req.output_format,
         language |-> req.language,
         speaker_diarization |-> req.enable_speaker_diarization,
         speakers |-> result.speakers]

\* models.py lines 8-14: the fields of TranscriptionRequest; a field of the JSON
\* body that is none of them is dropped when the model is built
TranscriptionRequestFields ==
    {"url", "output_format", "language", "enable_speaker_diarization", "hotwords"}

\* request.<name> raises AttributeError for a name that is no field
HasAttr(name) == name \in TranscriptionRequestFields

\* main.py lines 259-263: the attributes of request that transcribe_url reads
AttrsRead ==
    {"output_format", "language", "enable_speaker_diarization", "hotwords",
     "merge_threshold"}

\* main.py lines 270-283: the TranscriptionResponse of transcribe_url
TranscribeUrlResponse(result, req) ==
    [status_code |-> 200,
     success |-> TRUE,
     transcription |-> result.transcription,
     transcription_srt |-> IF req.output_format = "both"
                           THEN Get(result, "transcription_srt", PyNone) ELSE PyNone,
     format |-> req.output_format,
     language |-> req.language,
     speaker_diarization |-> req.enable_speaker_diarization,
     speakers |-> result.speakers]

\* main.py lines 308-315: cleanup_temp_file
cleanup_temp_file(files, file_path) == files \ {file_path}

\* the call has ended: the response is out and no background task is left
Finished == svc_pc = "finished"

\* main.py lines 117-135: a request that is not valid is answered 400
TranscribeReject ==
    /\ svc_pc = "transcribe"
    /\ ~ValidTranscribeRequest(request)
    /\ response' = HTTPException(400)
    /\ svc_pc' = "finished"
    /\ UNCHANGED <<request, environment, temp_files, process_file_calls,
                   generate_srt_calls, background_tasks, created_files>>
    /\ UNCHANGED <<tc_vars, gs_vars>>

\* main.py lines 137-139: the temporary file is created
TranscribeCreateTempFile ==
    /\ svc_pc = "transcribe"
    /\ ValidTranscribeRequest(request)
    /\ temp_files' = temp_files \cup {"tmp_file"}
    /\ created_files' = created_files \cup {"tmp_file"}
    /\ svc_pc' = "transcribe_try"
    /\ UNCHANGED <<request, environment, process_file_calls, generate_srt_calls,
                   background_tasks, response>>
    /\ UNCHANGED <<tc_vars, gs_vars>>

\* main.py lines 141-208: the try block. The upload is read, process_file runs in
\* the thread pool, the cleanup is scheduled and the response built; an exception
\* on the way cleans up and is answered 500.
TranscribeTry ==
    /\ svc_pc = "transcribe_try"
    /\ LET call == process_file(request.suffix, request.output_format, request.language,
                                request.enable_speaker_diarization, request.hotwords,
                                transcribe_file_merge_threshold(request.merge_threshold),
                                environment)
       IN  IF environment.fails = "read"
           THEN /\ temp_files' = cleanup_temp_file(temp_files, "tmp_file")
                /\ response' = HTTPException(500)
                /\ svc_pc' = "finished"
                /\ UNCHANGED <<process_file_calls, generate_srt_calls, background_tasks,
                               created_files>>
           ELSE /\ process_file_calls' = Append(process_file_calls, call.args)
                /\ generate_srt_calls' = generate_srt_calls \o call.srt_calls
                /\ created_files' = created_files \cup call.created
                /\ IF call.raised
                   THEN /\ temp_files' =
                              cleanup_temp_file(temp_files \cup call.left, "tmp_file")
                        /\ response' = HTTPException(500)
                        /\ svc_pc' = "finished"
                        /\ UNCHANGED background_tasks
                   ELSE /\ temp_files' = temp_files \cup call.left
                        /\ background_tasks' = Append(background_tasks, "tmp_file")
                        /\ response' = TranscribeFileResponse(call.result, request)
                        /\ svc_pc' = "background"
    /\ UNCHANGED <<request, environment>>
    /\ UNCHANGED <<tc_vars, gs_vars>>

\* the background task runs after the response is sent: cleanup_temp_file, main.py
\* lines 308-315
RunBackgroundTask ==
    /\ svc_pc = "background"
    /\ background_tasks # <<>>
    /\ temp_files' = cleanup_temp_file(temp_files, Head(background_tasks))
    /\ background_tasks' = Tail(background_tasks)
    /\ svc_pc' = IF Tail(background_tasks) = <<>> THEN "finished" ELSE "background"
    /\ UNCHANGED <<request, environment, process_file_calls, generate_srt_calls,
                   response, created_files>>
    /\ UNCHANGED <<tc_vars, gs_vars>>

\* main.py lines 227-231 and 285-287: the download fails and is answered 500
UrlDownloadFails ==
    /\ svc_pc = "transcribe_url"
    /\ environment.fails = "download"
    /\ response' = HTTPException(500)
    /\ svc_pc' = "finished"
    /\ UNCHANGED <<request, environment, temp_files, process_file_calls,
                   generate_srt_calls, background_tasks, created_files>>
    /\ UNCHANGED <<tc_vars, gs_vars>>

\* main.py lines 227-246: the download starts and the temporary file is created
UrlCreateTempFile ==
    /\ svc_pc = "transcribe_url"
    /\ environment.fails # "download"
    /\ temp_files' = temp_files \cup {"tmp_file"}
    /\ created_files' = created_files \cup {"tmp_file"}
    /\ svc_pc' = "transcribe_url_with"
    /\ UNCHANGED <<request, environment, process_file_calls, generate_srt_calls,
                   background_tasks, response>>
    /\ UNCHANGED <<tc_vars, gs_vars>>

\* main.py lines 248-287: the body of the with block. The chunks are written, the
\* arguments of process_file are read from request, process_file runs, the cleanup
\* is scheduled and the response built; an exception on the way is answered 500 by
\* the handler at lines 285-287, which does not clean up.
UrlWith ==
    /\ svc_pc = "transcribe_url_with"
    /\ LET call == process_file(request.suffix, request.output_format, request.language,
                                request.enable_speaker_diarization, request.hotwords,
                                request.merge_threshold, environment)
       IN  IF environment.fails = "write" \/ \E name \in AttrsRead : ~HasAttr(name)
           THEN /\ response' = HTTPException(500)
                /\ svc_pc' = "finished"
                /\ UNCHANGED <<temp_files, process_file_calls, generate_srt_calls,
                               background_tasks, created_files>>
           ELSE /\ process_file_calls' = Append(process_file_calls, call.args)
                /\ generate_srt_calls' = generate_srt_calls \o call.srt_calls
                /\ created_files' = created_files \cup call.created
                /\ temp_files' = temp_files \cup call.left
                /\ IF call.raised
                   THEN /\ response' = HTTPException(500)
                        /\ svc_pc' = "finished"
                        /\ UNCHANGED background_tasks
                   ELSE /\ background_tasks' = Append(background_tasks, "tmp_file")
                        /\ response' = TranscribeUrlResponse(call.result, request)
                        /\ svc_pc' = "background"
    /\ UNCHANGED <<request, environment>>
    /\ UNCHANGED <<tc_vars, gs_vars>>

\* a direct call of asr_processor.process_file on a file of the caller's
CallProcessFile ==
    /\ svc_pc = "process_file"
    /\ LET call == process_file(request.suffix, request.output_format, request.language,
                                request.enable_speaker_diarization, request.hotwords,
                                request.merge_threshold, environment)
       IN  /\ process_file_calls' = Append(process_file_calls, call.args)
           /\ generate_srt_calls' = generate_srt_calls \o call.srt_calls
           /\ created_files' = created_files \cup call.created
           /\ temp_files' = temp_files \cup call.left
           /\ response' = IF call.raised THEN [raised |-> TRUE] ELSE call.result
    /\ svc_pc' = "finished"
    /\ UNCHANGED <<request, environment, background_tasks>>
    /\ UNCHANGED <<tc_vars, gs_vars>>

\* a direct call of generate_srt(sentence_info) or generate_srt(sentence_info, t)
CallGenerateSrt ==
    /\ svc_pc = "generate_srt"
    /\ generate_srt_calls' =
          Append(generate_srt_calls, [sentence_list |-> environment.sentence_info,
                                      merge_threshold |-> request.merge_threshold])
    /\ response' =
          [returned |-> PyStr(generate_srt(environment.sentence_info,
                          ValOf(generate_srt_merge_threshold(request.merge_threshold))))]
    /\ svc_pc' = "finished"
    /\ UNCHANGED <<request, environment, temp_files, process_file_calls,
                   background_tasks, created_files>>
    /\ UNCHANGED <<tc_vars, gs_vars>>


---------------------------------------------------------------------------
(* The calls of the service the model makes *)

\* sentences 8000 ms and 8001 ms apart, of one speaker
GapSentences ==
    << Sentence(<<"A">>, PyList(<<Pair(0, 1000)>>), PyInt(0)),
       Sentence(<<"B">>, PyList(<<Pair(9000, 9500)>>), PyInt(0)),
       Sentence(<<"C">>, PyList(<<Pair(17501, 18000)>>), PyInt(0)) >>

\* a sentence with a NUL character in its text, of no speaker
NulSentences == << Sentence(<<"n", NUL>>, PyList(<<Pair(0, 1000)>>), Absent) >>

\* result['sentence_info'] of the recognizer
SentenceInfos == {<<>>, GapSentences, NulSentences}

\* result['text'] of the recognizer
TextResults == {PyStr(<<"t">>), PyStr(<<>>), PyStr(<<"t", NUL>>)}

\* the step that raises, if one does
Failures == {"nothing", "read", "download", "write", "extract", "recognise"}

Environments ==
    [fails : Failures, text_result : TextResults, sentence_info : SentenceInfos]

\* the merge_threshold of the caller: none, or one around the default
ThresholdArgs == {Absent, PyInt(7999), PyInt(8001)}

\* the hotwords of the caller: none, or a dict
HotwordArgs == {PyNone, <<"dict", <<"w", 2>>>>}

\* POST /transcribe with a form and a file name (without hotwords: lines 147-159
\* are left out)
TranscribeRequests ==
    [entry : {"transcribe"}, output_format : {"text", "srt", "both", "json"},
     language : {"zh", "fr"}, enable_speaker_diarization : BOOLEAN,
     hotwords : {PyNone}, merge_threshold : ThresholdArgs,
     suffix : {".wav", ".mp4", ".txt"}]

\* POST /transcribe_url with a JSON body that TranscriptionRequest accepts
UrlRequests ==
    [entry : {"transcribe_url"}, output_format : {"text", "srt", "both"},
     language : {"zh"}, enable_speaker_diarization : BOOLEAN,
     hotwords : HotwordArgs, merge_threshold : ThresholdArgs,
     suffix : {".wav", ".mp4"}]

\* asr_processor.process_file(file_path, ...)
ProcessFileRequests ==
    [entry : {"process_file"}, output_format : {"text", "srt", "both"},
     language : {"zh"}, enable_speaker_diarization : {FALSE},
     hotwords : HotwordArgs, merge_threshold : ThresholdArgs,
     suffix : {".wav", ".mp4"}]

\* generate_srt(sentence_info) and generate_srt(sentence_info, merge_threshold)
GenerateSrtRequests ==
    [entry : {"generate_srt"}, output_format : {"srt"},
     language : {"zh"}, enable_speaker_diarization : {FALSE},
     hotwords : {PyNone}, merge_threshold : ThresholdArgs,
     suffix : {".wav"}]

Requests ==
    TranscribeRequests \cup UrlRequests \cup ProcessFileRequests \cup GenerateSrtRequests

\* a call of the service
InitService ==
    /\ TimeConvertIdle
    /\ sentence_list = <<>>
    /\ merge_threshold = 0
    /\ pc = "idle"
    /\ GenerateSrtLocals
    /\ request \in Requests
    /\ environment \in Environments
    /\ svc_pc = request.entry
    /\ temp_files = {}
    /\ process_file_calls = <<>>
    /\ generate_srt_calls = <<>>
    /\ background_tasks = <<>>
    /\ response = NoResponse
    /\ created_files = {}

NextService ==
    \/ TranscribeReject
    \/ TranscribeCreateTempFile
    \/ TranscribeTry
    \/ RunBackgroundTask
    \/ UrlDownloadFails
    \/ UrlCreateTempFile
    \/ UrlWith
    \/ CallProcessFile
    \/ CallGenerateSrt

SpecService == InitService /\ [][NextService]_vars


---------------------------------------------------------------------------
(* The merge threshold on its way to generate_srt *)

\* the threshold the caller's request asks for: its own, or the default policy value
RequestedThreshold == IF request.merge_threshold = Absent
                      THEN 8000 ELSE ValOf(request.merge_threshold)

\* the SRT of the recognizer's sentences at the threshold the request asks for
RequestedSrt == PyStr(generate_srt(environment.sentence_info, RequestedThreshold))

\* C22: without a merge threshold from the caller the merge runs at 8000 ms from
\* generate_srt, from process_file and from POST /transcribe alike, and a threshold
\* of the caller reaches process_file and generate_srt as it was given: every call
\* made carries it, and the SRT that comes back is the one of that threshold.
C22_ThresholdPassedOn ==
    /\ request.entry = "transcribe" =>
          \A k \in 1..Len(process_file_calls) :
             process_file_calls[k].merge_threshold = PyInt(RequestedThreshold)
    /\ request.entry \in {"transcribe", "process_file"} =>
          \A k \in 1..Len(generate_srt_calls) :
             generate_srt_calls[k].merge_threshold = PyInt(RequestedThreshold)
    /\ (request.entry = "generate_srt" /\ Finished) =>
          response.returned = RequestedSrt
    /\ (request.entry = "process_file" /\ Finished /\ "raised" \notin DOMAIN response) =>
          /\ request.output_format = "srt" => response.transcription = RequestedSrt
          /\ request.output_format = "both" => response.transcription_srt = RequestedSrt
    /\ (request.entry = "transcribe" /\ response.status_code = 200) =>
          /\ request.output_format = "srt" =>
                response.transcription = Cleaned(RequestedSrt, PyStr(<<>>))
          /\ request.output_format = "both" =>
                response.transcription_srt = Cleaned(RequestedSrt, PyNone)

\* POST /transcribe without a merge_threshold has answered with the SRT of sentences
\* 8000 ms and 8001 ms apart, which is the one of threshold 8000 and of no other
C22_Witness ==
    /\ Finished
    /\ request.entry = "transcribe"
    /\ request.merge_threshold = Absent
    /\ request.output_format = "both"
    /\ environment.sentence_info = GapSentences
    /\ response.status_code = 200
    /\ Len(generate_srt_calls) = 1
    /\ response.transcription_srt = PyStr(generate_srt(GapSentences, 8000))
    /\ generate_srt(GapSentences, 8000) # generate_srt(GapSentences, 7999)
    /\ generate_srt(GapSentences, 8000) # generate_srt(GapSentences, 8001)


---------------------------------------------------------------------------
(* The dispatch on output_format *)

\* POST /transcribe has answered 200
Answered == request.entry = "transcribe" /\ response.status_code = 200

\* generate_srt runs for 'srt' and 'both' only, and an output_format that is none
\* of the three is answered 400 with no temporary file and no call of the processor
OnlyWhenAsked ==
    /\ (request.entry \in {"transcribe", "process_file"} /\ generate_srt_calls # <<>>) =>
          request.output_format \in {"srt", "both"}
    /\ (request.entry = "transcribe"
        /\ request.output_format \notin {"text", "srt", "both"}) =>
          /\ created_files = {}
          /\ process_file_calls = <<>>
          /\ generate_srt_calls = <<>>
          /\ Finished => response.status_code = 400

\* C25 as the specification states it: the response carries the recognized text and
\* the string of generate_srt as they are
C25_DispatchAsStated ==
    /\ OnlyWhenAsked
    /\ Answered =>
          /\ request.output_format = "text" =>
                /\ response.transcription = environment.text_result
                /\ response.transcription_srt = PyNone
          /\ request.output_format = "srt" =>
                /\ response.transcription = RequestedSrt
                /\ response.transcription_srt = PyNone
          /\ request.output_format = "both" =>
                /\ response.transcription = environment.text_result
                /\ response.transcription_srt = RequestedSrt

\* C25: for 'text' the response's transcription is the recognized text and
\* transcription_srt null; for 'srt' the transcription is the string of generate_srt
\* and transcription_srt null; for 'both' the transcription is the text and
\* transcription_srt the string of generate_srt -- each with its NUL characters
\* removed, and a transcription_srt that would be the empty string is null.
\* process_file itself returns the text and the string as they are. generate_srt
\* runs for 'srt' and 'both' only, and any other output_format is answered 400
\* before a temporary file exists or the processor is called.
C25_Dispatch ==
    /\ OnlyWhenAsked
    /\ Answered =>
          /\ request.output_format = "text" =>
                /\ response.transcription = WithoutNul(environment.text_result)
                /\ response.transcription_srt = PyNone
          /\ request.output_format = "srt" =>
                /\ response.transcription = WithoutNul(RequestedSrt)
                /\ response.transcription_srt = PyNone
          /\ request.output_format = "both" =>
                /\ response.transcription = WithoutNul(environment.text_result)
                /\ response.transcription_srt =
                      IF RequestedSrt = PyStr(<<>>) THEN PyNone ELSE WithoutNul(RequestedSrt)
    /\ (request.entry = "process_file" /\ Finished /\ "raised" \notin DOMAIN response) =>
          /\ request.output_format = "text" =>
                /\ response.transcription = environment.text_result
                /\ response.transcription_srt = Absent
          /\ request.output_format = "srt" =>
                /\ response.transcription = RequestedSrt
                /\ response.transcription_srt = Absent
          /\ request.output_format = "both" =>
                /\ response.transcription = environment.text_result
                /\ response.transcription_srt = RequestedSrt

\* POST /transcribe has answered a 'both' request whose recognized text and whose
\* SRT hold a NUL character, without them
C25_Witness ==
    /\ Answered
    /\ request.output_format = "both"
    /\ environment.text_result = PyStr(<<"t", NUL>>)
    /\ environment.sentence_info = NulSentences
    /\ response.transcription = PyStr(<<"t">>)
    /\ response.transcription_srt # PyNone
    /\ response.transcription_srt # RequestedSrt
    /\ generate_srt_calls # <<>>


---------------------------------------------------------------------------
(* POST /transcribe_url *)

\* the download of the URL fails: the request for it, or the reading of its chunks
DownloadFails == environment.fails \in {"download", "write"}

\* process_file would raise on the downloaded file
TranscriptionFails ==
    \/ environment.fails = "recognise"
    \/ environment.fails = "extract" /\ request.suffix \in VideoSuffixes

\* C26: POST /transcribe_url with a valid request whose download and transcription
\* succeed hands the request's output_format, language, diarization flag, hotwords
\* and merge threshold to process_file and answers with success = true; it answers
\* 500 only when the download or the transcription fails.
C26_UrlSucceeds ==
    (request.entry = "transcribe_url" /\ Finished) =>
       IF DownloadFails \/ TranscriptionFails
       THEN response.status_code = 500
       ELSE /\ response.status_code = 200
            /\ response.success
            /\ Len(process_file_calls) = 1
            /\ process_file_calls[1] =
                  [output_format |-> request.output_format,
                   language |-> request.language,
                   enable_speaker_diarization |-> request.enable_speaker_diarization,
                   hotwords_dict |-> request.hotwords,
                   merge_threshold |-> request.merge_threshold]

---------------------------------------------------------------------------
(* The temporary files *)

\* C27: every temporary file made while a request is served -- the uploaded copy,
\* the downloaded copy, the audio taken out of a video -- is gone once the handling
\* of the request, its background task included, has finished, whether the request
\* succeeded or failed.
\* Nothing happens to a request after it has finished, so a file that is there then
\* stays.
C27_TempFilesDeleted == Finished => temp_files = {}

===========================================================================
